---- MODULE Spec2Model ----
(***************************************************************************)
(* The zproc state server (src/zproc/zproc_server.py): one ROUTER socket,  *)
(* one state dict, four watcher registries, and a strictly serial main     *)
(* loop.  Every request handler is one action; lock_state is two actions,  *)
(* split at its blocking recv_pyobj().                                     *)
(***************************************************************************)
EXTENDS Integers, Sequences, FiniteSets, TLC

VARIABLES
    state,                \* ZProcServer.state: key -> value, Absent if the key is not in the dict
    change_handlers,      \* defaultdict(Queue), in dict insertion order: <<[keys, q]>>
    condition_handlers,   \* Queue of [ipc, fn, args]
    val_change_handlers,  \* defaultdict(Queue), in dict insertion order: <<[key, q]>>
    equals_handlers,      \* Queue of [key, value, ipc]
    uuid,                 \* number of uuid1() calls made so far
    pc,                   \* "recv": in wait_req; "locked": in lock_state's recv_pyobj; "done": handler returned
    lock,                 \* the blocked lock_state call's locals: [ident, ipc]
    out,                  \* what the handling of the current request has sent and called, in order
    npush,                \* per private endpoint, the number of messages pushed to it so far
    issued                \* per private endpoint, the number of times get_random_ipc returned it

vars == <<state, change_handlers, condition_handlers, val_change_handlers,
          equals_handlers, uuid, pc, lock, out, npush, issued>>

----
\* Bounds of the model.
MaxIpc == 2          \* get_random_ipc is called at most this many times
MaxFifoIpc == 3      \* the same, where only key watchers register (SpecKeyWatchers)

\* The data the clients send.
Keys == {"x", "y"}
None == "None"
Absent == "absent"
Vals == {None, "0", "1"}
Idents == {"A", "B"}
Ipcs == 1..MaxFifoIpc

Dicts == [Keys -> Vals \cup {Absent}]
EmptyDict == [k \in Keys |-> Absent]

\* dict.get(key): None when the key is absent.
Get(d, k) == IF d[k] = Absent THEN None ELSE d[k]

HasKeys(d) == {k \in Keys : d[k] # Absent}

----
\* Messages on the wire.  A message is a record of one shape, so that any
\* two can be compared: tag names what it is, the other fields carry it.
Msg(tag, v, k, st, ipc) == [tag |-> tag, v |-> v, k |-> k, st |-> st, ipc |-> ipc]
StateMsg(d) == Msg("state", "", "", d, 0)             \* a pickled dict
ValueMsg(v) == Msg("value", v, "", EmptyDict, 0)      \* a pickled value (None, True, a state value)
PairMsg(k, v) == Msg("pair", v, k, EmptyDict, 0)      \* popitem's (key, value)
IpcMsg(p) == Msg("ipc", "", "", EmptyDict, p)             \* an ipc path
LockMsg(p, d) == Msg("lock", "", "", d, p)                \* (ipc_path, state)
ExcMsg(e) == Msg("exc", e, "", EmptyDict, 0)          \* ZProcServerException()
ViewMsg(d) == Msg("view", "", "", d, 0)               \* a dict view: not picklable

\* pickle.dumps(msg) raises TypeError on dict_keys, dict_values, dict_items.
Picklable(m) == m.tag # "view"

\* One entry of out.
Ev(type, ident, ipc, msg) == [type |-> type, ident |-> ident, ipc |-> ipc, msg |-> msg]
NoMsg == Msg("", "", "", EmptyDict, 0)
Called(name) == Ev("call", name, 0, NoMsg)

----
\* The server object while one handler runs: its fields, what it has sent
\* (out) and the exception that is propagating (exc, "" when none).
Server(st, ch, co, vc, eq, u, o) ==
    [state |-> st, change_handlers |-> ch, condition_handlers |-> co,
     val_change_handlers |-> vc, equals_handlers |-> eq, uuid |-> u,
     out |-> o, exc |-> ""]

Raise(s, e) == [s EXCEPT !.exc = e]

reply(s, ident, msg) ==
    IF Picklable(msg)
    THEN [s EXCEPT !.out = Append(@, Ev("reply", ident, 0, msg))]
    ELSE Raise(s, "TypeError")

push(s, ipc_path, msg) ==
    [s EXCEPT !.out = Append(@, Ev("push", "", ipc_path, msg))]

get_random_ipc(u) == u + 1

\* Queue: a deque; index 1 is its left end.
put(q, something) == <<something>> \o q

RECURSIVE put_all(_, _)
put_all(q, to_put_back) ==
    IF to_put_back = <<>> THEN q
    ELSE put_all(put(q, Head(to_put_back)), Tail(to_put_back))

get_keys_cmp(d, state_keys) == [i \in 1..Len(state_keys) |-> Get(d, state_keys[i])]

----
\* Client-supplied predicates (msg['callable']), called as test_fn(state, *args).
\* "gt0" is luck_test's foo_between shape: an order comparison on state.get(key),
\* which raises TypeError when the key is absent or None.  "is1" compares
\* with == and never raises.
TestFns == {"gt0", "is1"}

test_fn(fn, d, args) ==
    IF fn = "gt0"
    THEN (IF Get(d, args[1]) = None THEN "raise"
          ELSE IF Get(d, args[1]) = "1" THEN "True" ELSE "False")
    ELSE (IF Get(d, args[1]) = "1" THEN "True" ELSE "False")

----
\* resolve_change_handlers: the loop over one queue's drained copy (iter_deque,
\* popped from the right), then the loop over the dict's items.
RECURSIVE change_drain(_, _, _, _)
change_drain(s, new, iter_deque, to_put_back) ==
    IF iter_deque = <<>> THEN [s |-> s, to_put_back |-> to_put_back]
    ELSE LET h == iter_deque[Len(iter_deque)]
             rest == SubSeq(iter_deque, 1, Len(iter_deque) - 1)
         IN IF h.old # new
            THEN change_drain(push(s, h.ipc, StateMsg(s.state)), new, rest, to_put_back)
            ELSE change_drain(s, new, rest, Append(to_put_back, h))

AnyKeys == <<"_any_">>

RECURSIVE change_items(_, _)
change_items(s, j) ==
    IF j > Len(s.change_handlers) THEN s
    ELSE LET keys == s.change_handlers[j].keys
             new == IF keys = AnyKeys THEN s.state ELSE get_keys_cmp(s.state, keys)
             r == change_drain(s, new, s.change_handlers[j].q, <<>>)
         IN change_items(
                [r.s EXCEPT !.change_handlers[j].q = put_all(<<>>, r.to_put_back)],
                j + 1)

resolve_change_handlers(s) ==
    change_items([s EXCEPT !.out = Append(@, Called("resolve_change_handlers"))], 1)

\* resolve_val_change_handlers, the same way.
RECURSIVE val_change_drain(_, _, _, _, _)
val_change_drain(s, key, new, iter_deque, to_put_back) ==
    IF iter_deque = <<>> THEN [s |-> s, to_put_back |-> to_put_back]
    ELSE LET h == iter_deque[Len(iter_deque)]
             rest == SubSeq(iter_deque, 1, Len(iter_deque) - 1)
         IN IF h.old # new
            THEN val_change_drain(push(s, h.ipc, ValueMsg(Get(s.state, key))),
                                  key, new, rest, to_put_back)
            ELSE val_change_drain(s, key, new, rest, Append(to_put_back, h))

RECURSIVE val_change_items(_, _)
val_change_items(s, j) ==
    IF j > Len(s.val_change_handlers) THEN s
    ELSE LET key == s.val_change_handlers[j].key
             new == Get(s.state, key)
             r == val_change_drain(s, key, new, s.val_change_handlers[j].q, <<>>)
         IN val_change_items(
                [r.s EXCEPT !.val_change_handlers[j].q = put_all(<<>>, r.to_put_back)],
                j + 1)

resolve_val_change_handlers(s) ==
    val_change_items([s EXCEPT !.out = Append(@, Called("resolve_val_change_handlers"))], 1)

\* A resolve_equals_handler that puts back the entries it has pushed to.
RECURSIVE equals_drain_requeue(_, _, _)
equals_drain_requeue(s, iter_deque, to_put_back) ==
    IF iter_deque = <<>> THEN [s |-> s, to_put_back |-> to_put_back]
    ELSE LET h == iter_deque[Len(iter_deque)]
             rest == SubSeq(iter_deque, 1, Len(iter_deque) - 1)
         IN IF Get(s.state, h.key) = h.value
            THEN equals_drain_requeue(push(s, h.ipc, ValueMsg("True")), rest,
                                      Append(to_put_back, h))
            ELSE equals_drain_requeue(s, rest, Append(to_put_back, h))

\* resolve_equals_handler: drain() has emptied the queue before the loop runs.
RECURSIVE equals_drain(_, _, _)
equals_drain(s, iter_deque, to_put_back) ==
    IF iter_deque = <<>> THEN [s |-> s, to_put_back |-> to_put_back]
    ELSE LET h == iter_deque[Len(iter_deque)]
             rest == SubSeq(iter_deque, 1, Len(iter_deque) - 1)
         IN IF Get(s.state, h.key) = h.value
            THEN equals_drain(push(s, h.ipc, ValueMsg("True")), rest, to_put_back)
            ELSE equals_drain(s, rest, Append(to_put_back, h))

resolve_equals_handler(s) ==
    LET s0 == [s EXCEPT !.out = Append(@, Called("resolve_equals_handler"))]
        r == equals_drain([s0 EXCEPT !.equals_handlers = <<>>], s0.equals_handlers, <<>>)
    IN [r.s EXCEPT !.equals_handlers = put_all(@, r.to_put_back)]

\* resolve_condition_handlers: when test_fn raises, the exception leaves the
\* function before the put-back loop, with the queue as drain() cleared it.
RECURSIVE condition_drain(_, _, _)
condition_drain(s, iter_deque, to_put_back) ==
    IF iter_deque = <<>> THEN [s |-> s, to_put_back |-> to_put_back]
    ELSE LET h == iter_deque[Len(iter_deque)]
             rest == SubSeq(iter_deque, 1, Len(iter_deque) - 1)
             t == test_fn(h.fn, s.state, h.args)
         IN IF t = "raise" THEN [s |-> Raise(s, "TypeError"), to_put_back |-> to_put_back]
            ELSE IF t = "True"
            THEN condition_drain(push(s, h.ipc, StateMsg(s.state)), rest, to_put_back)
            ELSE condition_drain(s, rest, Append(to_put_back, h))

\* A resolve_condition_handlers that, when a predicate raises, leaves the
\* queue as it found it.
resolve_condition_handlers_keep(s) ==
    LET s0 == [s EXCEPT !.out = Append(@, Called("resolve_condition_handlers"))]
        r == condition_drain([s0 EXCEPT !.condition_handlers = <<>>],
                             s0.condition_handlers, <<>>)
    IN IF r.s.exc # "" THEN [r.s EXCEPT !.condition_handlers = s0.condition_handlers]
       ELSE [r.s EXCEPT !.condition_handlers = put_all(@, r.to_put_back)]

resolve_condition_handlers(s) ==
    LET s0 == [s EXCEPT !.out = Append(@, Called("resolve_condition_handlers"))]
        r == condition_drain([s0 EXCEPT !.condition_handlers = <<>>],
                             s0.condition_handlers, <<>>)
    IN IF r.s.exc # "" THEN r.s
       ELSE [r.s EXCEPT !.condition_handlers = put_all(@, r.to_put_back)]

\* resolve_all_handlers: the four sweeps in the code's order; an exception
\* ends it where it is raised.
resolve_all_handlers(s) ==
    LET s0 == [s EXCEPT !.out = Append(@, Called("resolve_all_handlers"))]
        s1 == resolve_change_handlers(s0)
        s2 == resolve_condition_handlers(s1)
    IN IF s2.exc # "" THEN s2
       ELSE resolve_equals_handler(resolve_val_change_handlers(s2))

----
\* The state-map operations a get_state_callable request can name, with the
\* arguments it carries: n positional arguments, of which k is the key and v
\* the value or default; update carries the pairs u (Absent: no pair for the
\* key) and, when bad, one malformed element after them.
ACTIONS_THAT_MUTATE ==
    {"__setitem__", "__delitem__", "setdefault", "pop", "popitem", "clear", "update"}

READS == {"get", "__getitem__", "__contains__", "keys"}

Call(item, n, k, v, u, bad) == [item |-> item, n |-> n, k |-> k, v |-> v, u |-> u, bad |-> bad]

\* A request with no 'item' field.
NoItem == Call("", 0, "x", "0", EmptyDict, FALSE)

Calls ==
    {Call("__setitem__", 2, k, v, EmptyDict, FALSE) : k \in Keys, v \in Vals}
    \cup {Call(i, 1, k, "0", EmptyDict, FALSE) :
            i \in {"__delitem__", "pop", "get", "__getitem__", "__contains__"}, k \in Keys}
    \cup {Call(i, 2, k, v, EmptyDict, FALSE) : i \in {"setdefault", "pop"}, k \in Keys, v \in Vals}
    \cup {Call(i, 0, "x", "0", EmptyDict, FALSE) : i \in {"pop", "popitem", "clear", "keys", "nope"}}
    \cup {Call("update", 1, "x", "0", u, FALSE) : u \in Dicts}
    \cup {Call("update", 1, "x", "0", u, TRUE) : u \in {d \in Dicts : Cardinality(HasKeys(d)) = 1}}
    \cup {NoItem}

\* dict.update(pairs): the pairs are stored one by one.
Updated(d, u) == [k \in Keys |-> IF u[k] # Absent THEN u[k] ELSE d[k]]

\* getattr(self.state, attr_name)(*args, **kwargs) on a dict d: the outcomes
\* [d: the dict afterwards, result, exc].  popitem removes an arbitrary pair.
Outcome(d, result, exc) == [d |-> d, result |-> result, exc |-> exc]

dict_call(d, c) ==
    CASE c.item = "__setitem__" ->
           {Outcome([d EXCEPT ![c.k] = c.v], ValueMsg(None), "")}
      [] c.item = "__delitem__" ->
           IF d[c.k] = Absent THEN {Outcome(d, NoMsg, "KeyError")}
           ELSE {Outcome([d EXCEPT ![c.k] = Absent], ValueMsg(None), "")}
      [] c.item = "setdefault" ->
           IF d[c.k] # Absent THEN {Outcome(d, ValueMsg(d[c.k]), "")}
           ELSE {Outcome([d EXCEPT ![c.k] = c.v], ValueMsg(c.v), "")}
      [] c.item = "pop" ->
           IF c.n = 0 THEN {Outcome(d, NoMsg, "TypeError")}
           ELSE IF d[c.k] # Absent
           THEN {Outcome([d EXCEPT ![c.k] = Absent], ValueMsg(d[c.k]), "")}
           ELSE IF c.n = 2 THEN {Outcome(d, ValueMsg(c.v), "")}
           ELSE {Outcome(d, NoMsg, "KeyError")}
      [] c.item = "popitem" ->
           IF HasKeys(d) = {} THEN {Outcome(d, NoMsg, "KeyError")}
           ELSE {Outcome([d EXCEPT ![k] = Absent], PairMsg(k, d[k]), "") : k \in HasKeys(d)}
      [] c.item = "clear" -> {Outcome(EmptyDict, ValueMsg(None), "")}
      [] c.item = "update" ->
           {Outcome(Updated(d, c.u), IF c.bad THEN NoMsg ELSE ValueMsg(None),
                    IF c.bad THEN "ValueError" ELSE "")}
      [] c.item = "get" -> {Outcome(d, ValueMsg(Get(d, c.k)), "")}
      [] c.item = "__getitem__" ->
           IF d[c.k] = Absent THEN {Outcome(d, NoMsg, "KeyError")}
           ELSE {Outcome(d, ValueMsg(d[c.k]), "")}
      [] c.item = "__contains__" ->
           {Outcome(d, ValueMsg(IF d[c.k] # Absent THEN "True" ELSE "False"), "")}
      [] c.item = "keys" -> {Outcome(d, ViewMsg(d), "")}
      [] OTHER -> {Outcome(d, NoMsg, "AttributeError")}

----
\* The handlers.  Each takes the server as the request finds it and gives the
\* server as the handler leaves it, exc set when it raised.

send_state(s, ident) == reply(s, ident, StateMsg(s.state))

\* get_state_attr: "__doc__" stands for an attribute dict has, any other name
\* for one it has not.
get_state_attr(s, ident, item) ==
    IF item = "" THEN Raise(s, "KeyError")
    ELSE IF item # "__doc__" THEN Raise(s, "AttributeError")
    ELSE reply(s, ident, ValueMsg("doc"))

\* get_state_callable, for one outcome r of the call on the dict.
get_state_callable_with(s, ident, c, r) ==
    LET can_mutate == c.item \in ACTIONS_THAT_MUTATE
        old == s.state
        s1 == [s EXCEPT !.state = r.d]
    IN IF r.exc # "" THEN Raise(s1, r.exc)
       ELSE LET s2 == reply(s1, ident, r.result)
            IN IF s2.exc # "" THEN s2
               ELSE IF can_mutate /\ old # s2.state THEN resolve_all_handlers(s2)
               ELSE s2

get_state_callable(s, ident, c) ==
    IF c = NoItem THEN {Raise(s, "KeyError")}
    ELSE {get_state_callable_with(s, ident, c, r) : r \in dict_call(s.state, c)}

add_change_handler(s, ident, msg) ==
    LET ipc_path == get_random_ipc(s.uuid)
        s1 == reply([s EXCEPT !.uuid = @ + 1], ident, IpcMsg(ipc_path))
        keys == msg.keys
    IN IF "keys" \notin msg.has THEN Raise(s1, "KeyError")
       ELSE LET k == IF Len(keys) > 0 THEN keys ELSE AnyKeys
                h == [ipc |-> ipc_path,
                      old |-> IF Len(keys) > 0 THEN get_keys_cmp(s1.state, keys)
                              ELSE s1.state]
                js == {j \in 1..Len(s1.change_handlers) : s1.change_handlers[j].keys = k}
                ch == IF js = {}
                      THEN Append(s1.change_handlers, [keys |-> k, q |-> put(<<>>, h)])
                      ELSE [s1.change_handlers EXCEPT
                              ![CHOOSE j \in js : TRUE].q = put(@, h)]
            IN resolve_change_handlers([s1 EXCEPT !.change_handlers = ch])

add_val_change_handler(s, ident, msg) ==
    LET ipc_path == get_random_ipc(s.uuid)
        s1 == reply([s EXCEPT !.uuid = @ + 1], ident, IpcMsg(ipc_path))
        key == msg.key
    IN IF "key" \notin msg.has THEN Raise(s1, "KeyError")
       ELSE LET old_value == IF "value" \in msg.has THEN msg.value ELSE Get(s1.state, key)
                h == [ipc |-> ipc_path, old |-> old_value]
                js == {j \in 1..Len(s1.val_change_handlers) :
                         s1.val_change_handlers[j].key = key}
                vc == IF js = {}
                      THEN Append(s1.val_change_handlers, [key |-> key, q |-> put(<<>>, h)])
                      ELSE [s1.val_change_handlers EXCEPT
                              ![CHOOSE j \in js : TRUE].q = put(@, h)]
            IN resolve_val_change_handlers([s1 EXCEPT !.val_change_handlers = vc])

\* An add_equals_handler that replies the endpoint after its sweep.
add_equals_handler_reply_last(s, ident, msg) ==
    LET ipc_path == get_random_ipc(s.uuid)
        s1 == [s EXCEPT !.uuid = @ + 1]
    IN IF ~({"key", "value"} \subseteq msg.has) THEN Raise(s1, "KeyError")
       ELSE reply(resolve_equals_handler(
                    [s1 EXCEPT !.equals_handlers =
                        put(@, [key |-> msg.key, value |-> msg.value, ipc |-> ipc_path])]),
                  ident, IpcMsg(ipc_path))

add_equals_handler(s, ident, msg) ==
    LET ipc_path == get_random_ipc(s.uuid)
        s1 == reply([s EXCEPT !.uuid = @ + 1], ident, IpcMsg(ipc_path))
    IN IF ~({"key", "value"} \subseteq msg.has) THEN Raise(s1, "KeyError")
       ELSE resolve_equals_handler(
              [s1 EXCEPT !.equals_handlers =
                  put(@, [key |-> msg.key, value |-> msg.value, ipc |-> ipc_path])])

add_condition_handler(s, ident, msg) ==
    LET ipc_path == get_random_ipc(s.uuid)
        s1 == reply([s EXCEPT !.uuid = @ + 1], ident, IpcMsg(ipc_path))
    IN IF ~({"callable", "args", "kwargs"} \subseteq msg.has) THEN Raise(s1, "KeyError")
       ELSE resolve_condition_handlers(
              [s1 EXCEPT !.condition_handlers =
                  put(@, [ipc |-> ipc_path, fn |-> msg.fn, args |-> msg.args])])

\* lock_state up to its recv_pyobj(), and from there on.
lock_state_reply(s, ident) ==
    LET ipc_path == get_random_ipc(s.uuid)
    IN reply([s EXCEPT !.uuid = @ + 1], ident, LockMsg(ipc_path, s.state))

lock_state_update(s, locked_state) ==
    IF locked_state # s.state
    THEN resolve_all_handlers([s EXCEPT !.state = locked_state])
    ELSE s

\* state_server's try/except around the handler: an exception is replied to
\* the requester as a ZProcServerException, and the loop goes on.
state_server(s, ident) ==
    IF s.exc # "" THEN reply([s EXCEPT !.exc = ""], ident, ExcMsg(s.exc))
    ELSE s

----
\* The main loop.
KeySeqs == {<<>>, <<"x">>, <<"y">>, <<"x", "y">>}
ArgSeqs == {<<k>> : k \in Keys}

\* The fields of a registration request: has names the fields it carries.
Fields(has, key, keys, value, fn, args) ==
    [has |-> has, key |-> key, keys |-> keys, value |-> value, fn |-> fn, args |-> args]

ChangeMsgs ==
    {Fields({"keys"}, "x", keys, "0", "is1", <<"x">>) : keys \in KeySeqs}
    \cup {Fields({}, "x", <<>>, "0", "is1", <<"x">>)}

ValChangeMsgs ==
    {Fields({"key", "value"}, k, <<>>, v, "is1", <<"x">>) : k \in Keys, v \in Vals}
    \cup {Fields({"key"}, k, <<>>, "0", "is1", <<"x">>) : k \in Keys}
    \cup {Fields({}, "x", <<>>, "0", "is1", <<"x">>)}

EqualsMsgs ==
    {Fields({"key", "value"}, k, <<>>, v, "is1", <<"x">>) : k \in Keys, v \in Vals}
    \cup {Fields({"key"}, "x", <<>>, "0", "is1", <<"x">>)}

ConditionMsgs ==
    {Fields({"callable", "args", "kwargs"}, "x", <<>>, "0", fn, args) :
        fn \in TestFns, args \in ArgSeqs}
    \cup {Fields({"args", "kwargs"}, "x", <<>>, "0", "is1", <<"x">>)}
NoLock == [ident |-> "", ipc |-> 0]

\* The server as a request finds it; o is what the request has sent so far.
Self(o) ==
    Server(state, change_handlers, condition_handlers, val_change_handlers,
           equals_handlers, uuid, o)

\* The pushes among the entries of o after the first n.
PushesTo(o, n, p) == Cardinality({i \in (n + 1)..Len(o) : o[i].type = "push" /\ o[i].ipc = p})

\* The server's fields after a handler; n entries of s.out were there before.
Commit(s, n) ==
    /\ state' = s.state
    /\ change_handlers' = s.change_handlers
    /\ condition_handlers' = s.condition_handlers
    /\ val_change_handlers' = s.val_change_handlers
    /\ equals_handlers' = s.equals_handlers
    /\ uuid' = s.uuid
    /\ out' = s.out
    /\ npush' = [p \in Ipcs |-> npush[p] + PushesTo(s.out, n, p)]
    /\ issued' = [p \in Ipcs |->
                    issued[p] + IF s.uuid > uuid /\ p = get_random_ipc(uuid) THEN 1 ELSE 0]

\* A server that takes requests whatever it is doing.
ReceivingAlways == TRUE

\* wait_req() returns a request only while the main loop is in it.
Receiving == pc = "recv"

\* uuid1() is called at most MaxIpc times.
CanAllocate == uuid < MaxIpc

Init ==
    /\ state = EmptyDict
    /\ change_handlers = <<>>
    /\ condition_handlers = <<>>
    /\ val_change_handlers = <<>>
    /\ equals_handlers = <<>>
    /\ uuid = 0
    /\ pc = "recv"
    /\ lock = NoLock
    /\ out = <<>>
    /\ npush = [p \in Ipcs |-> 0]
    /\ issued = [p \in Ipcs |-> 0]

SendState ==
    /\ Receiving
    /\ \E ident \in Idents :
           /\ Commit(state_server(send_state(Self(<<>>), ident), ident), 0)
           /\ pc' = "done"
           /\ UNCHANGED lock

GetStateAttr ==
    /\ Receiving
    /\ \E ident \in Idents, item \in {"__doc__", "nope"} :
           /\ Commit(state_server(get_state_attr(Self(<<>>), ident, item), ident), 0)
           /\ pc' = "done"
           /\ UNCHANGED lock

GetStateCallableOf(calls) ==
    /\ Receiving
    /\ \E ident \in Idents, c \in calls :
           \E s \in get_state_callable(Self(<<>>), ident, c) :
               /\ Commit(state_server(s, ident), 0)
               /\ pc' = "done"
               /\ UNCHANGED lock

GetStateCallable == GetStateCallableOf(Calls)

AddChangeHandler ==
    /\ Receiving
    /\ CanAllocate
    /\ \E ident \in Idents, msg \in ChangeMsgs :
           /\ Commit(state_server(add_change_handler(Self(<<>>), ident, msg), ident), 0)
           /\ pc' = "done"
           /\ UNCHANGED lock

AddValChangeHandler ==
    /\ Receiving
    /\ CanAllocate
    /\ \E ident \in Idents, msg \in ValChangeMsgs :
           /\ Commit(state_server(add_val_change_handler(Self(<<>>), ident, msg), ident), 0)
           /\ pc' = "done"
           /\ UNCHANGED lock

AddEqualsHandler ==
    /\ Receiving
    /\ CanAllocate
    /\ \E ident \in Idents, msg \in EqualsMsgs :
           /\ Commit(state_server(add_equals_handler(Self(<<>>), ident, msg), ident), 0)
           /\ pc' = "done"
           /\ UNCHANGED lock

AddConditionHandler ==
    /\ Receiving
    /\ CanAllocate
    /\ \E ident \in Idents, msg \in ConditionMsgs :
           /\ Commit(state_server(add_condition_handler(Self(<<>>), ident, msg), ident), 0)
           /\ pc' = "done"
           /\ UNCHANGED lock

\* lock_state until it blocks in recv_pyobj().
LockState ==
    /\ Receiving
    /\ CanAllocate
    /\ \E ident \in Idents :
           /\ Commit(lock_state_reply(Self(<<>>), ident), 0)
           /\ pc' = "locked"
           /\ lock' = [ident |-> ident, ipc |-> get_random_ipc(uuid)]

\* The lock holder pushes a state to the lock's endpoint; lock_state goes on.
LockReturn ==
    /\ pc = "locked"
    /\ \E locked_state \in Dicts :
           /\ Commit(state_server(lock_state_update(Self(out), locked_state), lock.ident), Len(out))
           /\ pc' = "done"
           /\ lock' = NoLock

\* getattr(server, msg[action])(ident, msg) for a request that names none of
\* the eight handlers: "" is a request with no action field (KeyError),
\* "nope" names no attribute of the server (AttributeError),
\* "resolve_all_handlers" a method that does not take (ident, msg)
\* (TypeError, before its body runs), "push" the method push(ipc_path, msg),
\* whose bind() refuses a client identity as an address (ZMQError), and
\* "reply" the method reply(ident, msg), which sends the request back to its
\* sender.
OtherActions == {"", "nope", "resolve_all_handlers", "push", "reply"}

RequestMsg(action) == Msg("request", action, "", EmptyDict, 0)

dispatch_other(s, ident, action) ==
    CASE action = "" -> Raise(s, "KeyError")
      [] action = "reply" -> reply(s, ident, RequestMsg(action))
      [] action = "resolve_all_handlers" -> Raise(s, "TypeError")
      [] action = "push" -> Raise(s, "ZMQError")
      [] OTHER -> Raise(s, "AttributeError")

BadAction ==
    /\ Receiving
    /\ \E ident \in Idents, action \in OtherActions :
           /\ Commit(state_server(dispatch_other(Self(<<>>), ident, action), ident), 0)
           /\ pc' = "done"
           /\ UNCHANGED lock

\* The handler has returned (or its exception was replied): the loop goes
\* back to wait_req().
WaitReq ==
    /\ pc = "done"
    /\ pc' = "recv"
    /\ out' = <<>>
    /\ UNCHANGED <<state, change_handlers, condition_handlers, val_change_handlers,
                   equals_handlers, uuid, lock, npush, issued>>

Next ==
    \/ WaitReq
    \/ SendState
    \/ GetStateAttr
    \/ GetStateCallable
    \/ AddChangeHandler
    \/ AddValChangeHandler
    \/ AddEqualsHandler
    \/ AddConditionHandler
    \/ LockState
    \/ LockReturn
    \/ BadAction

Spec == Init /\ [][Next]_vars

\* The server when no client sends an update whose sequence of pairs ends in a
\* malformed element.
GetStateCallableWellFormed == GetStateCallableOf({c \in Calls : ~c.bad})

NextWellFormed ==
    \/ WaitReq
    \/ SendState
    \/ GetStateAttr
    \/ GetStateCallableWellFormed
    \/ AddChangeHandler
    \/ AddValChangeHandler
    \/ AddEqualsHandler
    \/ AddConditionHandler
    \/ LockState
    \/ LockReturn
    \/ BadAction

SpecWellFormed == Init /\ [][NextWellFormed]_vars

\* The requests of the dict API alone: no watcher, no lock.
NextDict ==
    \/ WaitReq
    \/ SendState
    \/ GetStateCallable

SpecDict == Init /\ [][NextDict]_vars

----
\* The server when its clients only write, delete and clear items and register
\* change and value-change watchers, with one more endpoint to hand out.
KeyWatcherCalls == {c \in Calls : c.item \in {"__setitem__", "__delitem__", "clear"}}

SetOrDelItem == GetStateCallableOf(KeyWatcherCalls)

WatchKeys ==
    /\ Receiving
    /\ uuid < MaxFifoIpc
    /\ \E ident \in Idents, msg \in {m \in ChangeMsgs : "keys" \in m.has} :
           /\ Commit(state_server(add_change_handler(Self(<<>>), ident, msg), ident), 0)
           /\ pc' = "done"
           /\ UNCHANGED lock

WatchValue ==
    /\ Receiving
    /\ uuid < MaxFifoIpc
    /\ \E ident \in Idents, msg \in {m \in ValChangeMsgs : m.has = {"key"}} :
           /\ Commit(state_server(add_val_change_handler(Self(<<>>), ident, msg), ident), 0)
           /\ pc' = "done"
           /\ UNCHANGED lock

NextKeyWatchers == WaitReq \/ SetOrDelItem \/ WatchKeys \/ WatchValue

SpecKeyWatchers == Init /\ [][NextKeyWatchers]_vars

----
\* The server when a watcher may be slow, or fail, to connect to its endpoint.
\* push() binds a PUSH socket and sends on it: send_pyobj() returns only once
\* the watcher's socket has connected.  A handler's effects are still taken
\* as a whole; what is left of it at pc = "done" is the return of its pushes,
\* in order, and the loop is back in wait_req() after the last of them.
Blocked == \E i \in 1..Len(out) : out[i].type = "push"

FirstPush == CHOOSE i \in 1..Len(out) : out[i].type = "push" /\ \A j \in 1..(i - 1) : out[j].type # "push"

\* The watcher of the push the server is in connects and receives it.
WatcherPulls ==
    /\ pc = "done"
    /\ Blocked
    /\ out' = [out EXCEPT ![FirstPush].type = "pulled"]
    /\ UNCHANGED <<state, change_handlers, condition_handlers, val_change_handlers,
                   equals_handlers, uuid, pc, lock, npush, issued>>

WaitReqAfterPushes == ~Blocked /\ WaitReq

NextLive ==
    \/ WaitReqAfterPushes
    \/ WatcherPulls
    \/ SendState
    \/ SetOrDelItem
    \/ AddValChangeHandler
    \/ AddEqualsHandler
    \/ LockState
    \/ LockReturn

\* The loop itself goes on, and every lock holder pushes a state back.
SpecLive == Init /\ [][NextLive]_vars /\ WF_vars(WaitReqAfterPushes) /\ WF_vars(LockReturn)

----
\* What the properties below read off a state or a step.

\* The endpoints waiting in each registry.
ChangeIpcs(ch) == UNION {{ch[j].q[i].ipc : i \in 1..Len(ch[j].q)} : j \in 1..Len(ch)}
ValChangeIpcs(vc) == UNION {{vc[j].q[i].ipc : i \in 1..Len(vc[j].q)} : j \in 1..Len(vc)}
EqualsIpcs(eq) == {eq[i].ipc : i \in 1..Len(eq)}
ConditionIpcs(co) == {co[i].ipc : i \in 1..Len(co)}

PendingIpcs ==
    ChangeIpcs(change_handlers) \cup ValChangeIpcs(val_change_handlers)
    \cup EqualsIpcs(equals_handlers) \cup ConditionIpcs(condition_handlers)

RECURSIVE SumLen(_)
SumLen(reg) == IF reg = <<>> THEN 0 ELSE Len(Head(reg).q) + SumLen(Tail(reg))

NumPending ==
    SumLen(change_handlers) + SumLen(val_change_handlers)
    + Len(equals_handlers) + Len(condition_handlers)

\* The messages pushed to endpoint p among the entries of o after the first n.
PushedMsgs(o, n, p) ==
    {o[i].msg : i \in {i \in (n + 1)..Len(o) : o[i].type = "push" /\ o[i].ipc = p}}

AnyPush(o, n) == \E i \in (n + 1)..Len(o) : o[i].type = "push"
DidCall(o, n, name) == \E i \in (n + 1)..Len(o) : o[i] = Called(name)
Replies(o) == SelectSeq(o, LAMBDA e : e.type = "reply")

\* A step that handles a request to its end: out' continues out (empty at
\* wait_req, the lock reply when the step is the lock holder's return).
Handled == pc # "done" /\ pc' = "done"

----
\* C1.  Every state-map operation sent through get_state_callable (the seven
\* mutating ones and the reads) leaves the server's dict as the same call
\* leaves a local dict, is answered by one reply that is the local call's
\* result (its exception, when it raises), and a send_state that follows
\* returns that dict.
DictApiCalls == {c \in Calls : c.item \in ACTIONS_THAT_MUTATE \cup READS}

\* The step is the handling of a request that leaves the server as t.
Took(t) == pc = "recv" /\ pc' = "done" /\ Commit(t, 0)

DictApiAnswer(ident, c, t) ==
    \E r \in dict_call(state, c) :
        /\ t.state = r.d
        /\ Replies(t.out) =
             <<Ev("reply", ident, 0, IF r.exc = "" THEN r.result ELSE ExcMsg(r.exc))>>
        /\ Replies(send_state([t EXCEPT !.out = <<>>], ident).out) =
             <<Ev("reply", ident, 0, StateMsg(r.d))>>

C1_DictApiMatchesLocalDict ==
    [][\A ident \in Idents, c \in DictApiCalls :
          \A s \in get_state_callable(Self(<<>>), ident, c) :
              Took(state_server(s, ident)) => DictApiAnswer(ident, c, state_server(s, ident))
    ]_vars

----
\* C2.  In the handling of a request, a waiting change watcher is pushed to
\* exactly when the values of its keys (the whole state for '_any_') after
\* the request differ from its baseline: then once, with the full state,
\* and it leaves the registry; otherwise it is not pushed to and stays.  A
\* watcher registered by the request is not pushed to.
C2_ChangeWatcherFiresOnFirstDifference ==
    [][Handled =>
        /\ \A j \in 1..Len(change_handlers) :
             \A i \in 1..Len(change_handlers[j].q) :
                LET keys == change_handlers[j].keys
                    h == change_handlers[j].q[i]
                    new == IF keys = AnyKeys THEN state' ELSE get_keys_cmp(state', keys)
                IN IF h.old # new
                   THEN /\ PushesTo(out', Len(out), h.ipc) = 1
                        /\ PushedMsgs(out', Len(out), h.ipc) = {StateMsg(state')}
                        /\ h.ipc \notin ChangeIpcs(change_handlers')
                   ELSE /\ PushesTo(out', Len(out), h.ipc) = 0
                        /\ h.ipc \in ChangeIpcs(change_handlers')
        /\ \A p \in ChangeIpcs(change_handlers') \ ChangeIpcs(change_handlers) :
             PushesTo(out', Len(out), p) = 0
    ]_vars

\* C3.  In the handling of a request, a waiting value-change watcher on key
\* with baseline old is pushed to exactly when state.get(key) after the
\* request differs from old (a deleted key reads None): then once, with the
\* current value, and it leaves the registry; otherwise it is not pushed to
\* and stays.
C3_ValChangeWatcherFiresOnFirstDifference ==
    [][Handled =>
        \A j \in 1..Len(val_change_handlers) :
            \A i \in 1..Len(val_change_handlers[j].q) :
                LET key == val_change_handlers[j].key
                    h == val_change_handlers[j].q[i]
                IN IF h.old # Get(state', key)
                   THEN /\ PushesTo(out', Len(out), h.ipc) = 1
                        /\ PushedMsgs(out', Len(out), h.ipc) = {ValueMsg(Get(state', key))}
                        /\ h.ipc \notin ValChangeIpcs(val_change_handlers')
                   ELSE /\ PushesTo(out', Len(out), h.ipc) = 0
                        /\ h.ipc \in ValChangeIpcs(val_change_handlers')
    ]_vars

\* C4.  A registration whose predicate holds already is notified within its
\* own request: an equals watcher whose key reads the target gets True, a
\* value-change watcher with an explicit baseline other than the current
\* value gets the current value, a condition watcher whose predicate is
\* true of the state gets the state.
FiresAtOnce(t, msg) ==
    /\ t.state = state
    /\ PushesTo(t.out, 0, get_random_ipc(uuid)) = 1
    /\ PushedMsgs(t.out, 0, get_random_ipc(uuid)) = {msg}

C4_SatisfiedWatcherFiresOnRegistration ==
    (Receiving /\ CanAllocate) =>
        \A ident \in Idents :
            /\ \A msg \in EqualsMsgs :
                 ({"key", "value"} \subseteq msg.has /\ Get(state, msg.key) = msg.value)
                 => FiresAtOnce(state_server(add_equals_handler(Self(<<>>), ident, msg), ident),
                                ValueMsg("True"))
            /\ \A msg \in ValChangeMsgs :
                 ({"key", "value"} \subseteq msg.has /\ Get(state, msg.key) # msg.value)
                 => FiresAtOnce(
                        state_server(add_val_change_handler(Self(<<>>), ident, msg), ident),
                        ValueMsg(Get(state, msg.key)))
            /\ \A msg \in ConditionMsgs :
                 ({"callable", "args", "kwargs"} \subseteq msg.has
                    /\ test_fn(msg.fn, state, msg.args) = "True")
                 => FiresAtOnce(
                        state_server(add_condition_handler(Self(<<>>), ident, msg), ident),
                        StateMsg(state))

\* C5.  In the handling of a request, a waiting condition watcher is pushed
\* to exactly when its predicate is true of the state after the request:
\* then once, with the full state, and it leaves the registry.
C5_ConditionWatcherFiresWhenTrue ==
    [][Handled =>
        \A i \in 1..Len(condition_handlers) :
            LET h == condition_handlers[i]
                t == test_fn(h.fn, state', h.args)
            IN /\ t = "True" =>
                    /\ PushesTo(out', Len(out), h.ipc) = 1
                    /\ PushedMsgs(out', Len(out), h.ipc) = {StateMsg(state')}
                    /\ h.ipc \notin ConditionIpcs(condition_handlers')
               /\ t # "True" => PushesTo(out', Len(out), h.ipc) = 0
    ]_vars

----
\* C6.  No endpoint is pushed to twice, an endpoint that was pushed to waits
\* in no registry, no endpoint waits in two entries, and get_random_ipc never
\* returned the same endpoint twice.
C6_WatcherNotifiedAtMostOnce ==
    /\ \A p \in Ipcs :
         /\ npush[p] <= 1
         /\ issued[p] <= 1
         /\ npush[p] >= 1 => p \notin PendingIpcs
    /\ Cardinality(PendingIpcs) = NumPending

\* A watcher was notified in an earlier request, and the request handled now
\* ran a full sweep that found another watcher to notify.
C6_Witness ==
    /\ pc = "done"
    /\ DidCall(out, 0, "resolve_all_handlers")
    /\ \E p, q \in Ipcs :
         /\ npush[p] = 1 /\ PushesTo(out, 0, p) = 0
         /\ npush[q] = 1 /\ PushesTo(out, 0, q) = 1

----
\* C7.  From the lock_state reply until the holder's state arrives, the main
\* loop is blocked in lock_state: the only thing sent is the reply to the
\* holder, carrying the lock's endpoint and the state as it still is.
C7_LockBlocksTheServer ==
    lock # NoLock =>
        /\ pc = "locked"
        /\ out = <<Ev("reply", lock.ident, 0, LockMsg(lock.ipc, state))>>

\* The lock is held while watchers wait and the state is not empty.
C7_Witness ==
    /\ pc = "locked"
    /\ lock.ident = "A"
    /\ NumPending > 0
    /\ state # EmptyDict

----
\* C8.  When the lock holder's state arrives: if it differs from the server's
\* state, it is the state afterwards, all four registries are swept, and each
\* waiting watcher it satisfies is pushed to exactly once; if it is equal,
\* nothing is sent or called.
C8_LockReturnInstallsAndSweeps ==
    [][(pc = "locked" /\ pc' = "done") =>
        IF state' = state THEN out' = out
        ELSE /\ DidCall(out', Len(out), "resolve_change_handlers")
             /\ DidCall(out', Len(out), "resolve_condition_handlers")
             /\ DidCall(out', Len(out), "resolve_val_change_handlers")
             /\ DidCall(out', Len(out), "resolve_equals_handler")
             /\ \A i \in 1..Len(equals_handlers) :
                  Get(state', equals_handlers[i].key) = equals_handlers[i].value
                  => PushesTo(out', Len(out), equals_handlers[i].ipc) = 1
             /\ \A i \in 1..Len(condition_handlers) :
                  test_fn(condition_handlers[i].fn, state', condition_handlers[i].args) = "True"
                  => PushesTo(out', Len(out), condition_handlers[i].ipc) = 1
             /\ \A j \in 1..Len(val_change_handlers) :
                  \A i \in 1..Len(val_change_handlers[j].q) :
                      val_change_handlers[j].q[i].old # Get(state', val_change_handlers[j].key)
                      => PushesTo(out', Len(out), val_change_handlers[j].q[i].ipc) = 1
             /\ \A j \in 1..Len(change_handlers) :
                  \A i \in 1..Len(change_handlers[j].q) :
                      change_handlers[j].q[i].old #
                          (IF change_handlers[j].keys = AnyKeys THEN state'
                           ELSE get_keys_cmp(state', change_handlers[j].keys))
                      => PushesTo(out', Len(out), change_handlers[j].q[i].ipc) = 1
    ]_vars

----
\* C9.  A get_state_callable request runs resolve_all_handlers exactly when
\* its operation is one of ACTIONS_THAT_MUTATE and leaves the state different;
\* without that sweep nothing is pushed.  send_state and get_state_attr run no
\* sweep and push nothing.
NoSweep(t) == ~DidCall(t.out, 0, "resolve_all_handlers") /\ ~AnyPush(t.out, 0)

C9_SweepIffMutated ==
    [][\A ident \in Idents :
          /\ \A c \in Calls :
               \A s \in get_state_callable(Self(<<>>), ident, c) :
                   Took(state_server(s, ident)) =>
                       /\ DidCall(out', 0, "resolve_all_handlers")
                            <=> (c.item \in ACTIONS_THAT_MUTATE /\ state' # state)
                       /\ ~DidCall(out', 0, "resolve_all_handlers") => ~AnyPush(out', 0)
          /\ Took(state_server(send_state(Self(<<>>), ident), ident))
               => NoSweep(state_server(send_state(Self(<<>>), ident), ident))
          /\ \A item \in {"__doc__", "nope"} :
               Took(state_server(get_state_attr(Self(<<>>), ident, item), ident))
               => NoSweep(state_server(get_state_attr(Self(<<>>), ident, item), ident))
    ]_vars

----
\* C10.  A request whose handling raised is answered with the exception, and
\* the state is as it was before the request.
RepliedException(o, n) ==
    \E i \in (n + 1)..Len(o) : o[i].type = "reply" /\ o[i].msg.tag = "exc"

C10_ExceptionLeavesState ==
    [][(Handled /\ RepliedException(out', Len(out))) => state' = state]_vars

----
\* C11.  A request whose action field is missing, or names anything other than
\* the eight handlers, is answered by exactly one reply, which is an
\* exception object, and leaves the state and the four registries alone.
Registries == <<change_handlers, condition_handlers, val_change_handlers, equals_handlers>>

C11_UnknownActionGetsError ==
    [][\A ident \in Idents, action \in OtherActions :
          Took(state_server(dispatch_other(Self(<<>>), ident, action), ident)) =>
              /\ Len(out') = 1
              /\ out'[1].type = "reply" /\ out'[1].ident = ident
              /\ out'[1].msg.tag = "exc"
              /\ state' = state
              /\ Registries' = Registries
    ]_vars

----
\* C12.  The handling of a request sends exactly one reply to the requester
\* (for lock_state, counting from the request to the end of the call).
C12_ExactlyOneReply ==
    [][Handled =>
        /\ Len(Replies(out')) = 1
        /\ \A i \in 1..Len(out') : out'[i].type = "reply" => out'[i].ident = out'[1].ident
    ]_vars

----
\* C13.  A registration request (one of the four add_*_handler actions, which
\* are the requests that take an endpoint and return to wait_req) either
\* queues its entry and sends the endpoint and no exception, or sends an
\* exception, sends no endpoint, and leaves the four registries as they were.
Registered ==
    /\ \E i \in 1..Len(out') : out'[i].type = "reply" /\ out'[i].msg = IpcMsg(uuid')
    /\ ~RepliedException(out', 0)
    /\ \/ uuid' \in ChangeIpcs(change_handlers') \cup ValChangeIpcs(val_change_handlers')
                   \cup EqualsIpcs(equals_handlers') \cup ConditionIpcs(condition_handlers')
       \/ PushesTo(out', 0, uuid') = 1

Refused ==
    /\ RepliedException(out', 0)
    /\ \A i \in 1..Len(out') : out'[i].type = "reply" => out'[i].msg.tag # "ipc"
    /\ Registries' = Registries

C13_RegistrationAllOrNothing ==
    [][(pc = "recv" /\ pc' = "done" /\ uuid' = uuid + 1) => (Registered \/ Refused)]_vars

----
\* C14.  Whenever the main loop is back in wait_req, no waiting watcher is
\* satisfied by the state: no change watcher's keys read other than its
\* baseline, no value-change watcher's key reads other than its baseline, no
\* equals watcher's key reads its target, no condition watcher's predicate is
\* true.
ChangeSatisfied(d) ==
    \E j \in 1..Len(change_handlers) : \E i \in 1..Len(change_handlers[j].q) :
        change_handlers[j].q[i].old #
            (IF change_handlers[j].keys = AnyKeys THEN d
             ELSE get_keys_cmp(d, change_handlers[j].keys))

ValChangeSatisfied(d) ==
    \E j \in 1..Len(val_change_handlers) : \E i \in 1..Len(val_change_handlers[j].q) :
        val_change_handlers[j].q[i].old # Get(d, val_change_handlers[j].key)

EqualsSatisfied(d) ==
    \E i \in 1..Len(equals_handlers) : Get(d, equals_handlers[i].key) = equals_handlers[i].value

ConditionSatisfied(d) ==
    \E i \in 1..Len(condition_handlers) :
        test_fn(condition_handlers[i].fn, d, condition_handlers[i].args) = "True"

C14_NoSatisfiedWatcherWaits ==
    Receiving =>
        /\ ~ChangeSatisfied(state)
        /\ ~ValChangeSatisfied(state)
        /\ ~EqualsSatisfied(state)
        /\ ~ConditionSatisfied(state)

----
\* C15.  The handling of a request removes a waiting watcher from its
\* registry only by pushing its notification; the one exception allowed here
\* is a condition watcher whose own predicate raises on the state the request
\* leaves.  And no watcher waits in two places.
OwnPredicateRaises(p, d) ==
    \E i \in 1..Len(condition_handlers) :
        /\ condition_handlers[i].ipc = p
        /\ test_fn(condition_handlers[i].fn, d, condition_handlers[i].args) = "raise"

C15_NoWatcherLost ==
    [][Handled =>
        /\ \A p \in PendingIpcs :
              \/ p \in PendingIpcs'
              \/ PushesTo(out', Len(out), p) >= 1
              \/ OwnPredicateRaises(p, state')
        /\ Cardinality(PendingIpcs') = NumPending'
    ]_vars

----
\* C16.  After a request whose handling ran the condition sweep, no condition
\* watcher whose predicate raises on the state is left in the registry, and
\* none was pushed to; and a request pushes only to endpoints that were
\* waiting or that it registered, so a removed watcher is never notified.
C16_RaisingPredicateIsRemoved ==
    [][Handled =>
        /\ \A p \in Ipcs :
              PushesTo(out', Len(out), p) >= 1
              => (p \in PendingIpcs \/ (uuid' > uuid /\ p = uuid'))
        /\ DidCall(out', Len(out), "resolve_condition_handlers") =>
              /\ \A i \in 1..Len(condition_handlers') :
                    test_fn(condition_handlers'[i].fn, state', condition_handlers'[i].args)
                        # "raise"
              /\ \A i \in 1..Len(condition_handlers) :
                    test_fn(condition_handlers[i].fn, state', condition_handlers[i].args)
                        = "raise"
                    => PushesTo(out', Len(out), condition_handlers[i].ipc) = 0
    ]_vars

\* A mutation was answered, its sweep evaluated a predicate that raised, and
\* the condition registry is empty while an endpoint that was handed out has
\* never been pushed to.
C16_Witness ==
    /\ pc = "done"
    /\ DidCall(out, 0, "resolve_all_handlers")
    /\ DidCall(out, 0, "resolve_condition_handlers")
    /\ \E i \in 1..Len(out) : out[i].type = "reply" /\ out[i].msg = ExcMsg("TypeError")
    /\ condition_handlers = <<>>
    /\ \E p \in Ipcs : issued[p] = 1 /\ npush[p] = 0 /\ p \notin PendingIpcs

----
\* C17.  Endpoints are handed out in increasing order, so the watcher that
\* registered first has the smaller endpoint.  In the handling of a request,
\* of two waiting watchers of one registry that are both pushed to, the one
\* that registered first is pushed to first; and in every queue the entries
\* stay in registration order (the newest on the left).
PushAt(o, i) == o[i].type = "push"

InOrder(ipcs) ==
    \A i, j \in (Len(out) + 1)..Len(out') :
        (i < j /\ PushAt(out', i) /\ PushAt(out', j)
           /\ out'[i].ipc \in ipcs /\ out'[j].ipc \in ipcs)
        => out'[i].ipc < out'[j].ipc

Queued(q) == \A i, j \in 1..Len(q) : i < j => q[i].ipc > q[j].ipc

C17_PushedInRegistrationOrder ==
    [][Handled =>
        /\ InOrder(ChangeIpcs(change_handlers))
        /\ InOrder(ValChangeIpcs(val_change_handlers))
        /\ InOrder(EqualsIpcs(equals_handlers))
        /\ InOrder(ConditionIpcs(condition_handlers))
        /\ \A j \in 1..Len(change_handlers') : Queued(change_handlers'[j].q)
        /\ \A j \in 1..Len(val_change_handlers') : Queued(val_change_handlers'[j].q)
        /\ Queued(equals_handlers')
        /\ Queued(condition_handlers')
    ]_vars

----
\* C18.  When the handling of a request has run resolve_all_handlers, running
\* it again on the server as it now is pushes nothing, raises nothing, and
\* leaves every registry with the same entries in the same order.
C18_ResolveAllIsIdempotent ==
    (pc = "done" /\ DidCall(out, 0, "resolve_all_handlers")) =>
        LET again == resolve_all_handlers(Self(<<>>))
        IN /\ ~AnyPush(again.out, 0)
           /\ again.exc = ""
           /\ again.change_handlers = change_handlers
           /\ again.condition_handlers = condition_handlers
           /\ again.val_change_handlers = val_change_handlers
           /\ again.equals_handlers = equals_handlers

----
\* C19.  Provided every lock holder returns a state, a request that has been
\* received is handled to its end and the main loop is in wait_req again.
C19_EveryRequestIsHandled == (pc # "recv") ~> (pc = "recv")

----
\* C20.  In what the handling of a request sends, every push comes after a
\* reply that is not an exception (the operation's result, the endpoint, the
\* lock reply), and a push to the endpoint the request registered comes after
\* the reply that carries that endpoint.
C20_ReplyPrecedesPushes ==
    \A i \in 1..Len(out) :
        out[i].type = "push" =>
            /\ \E j \in 1..(i - 1) : out[j].type = "reply" /\ out[j].msg.tag # "exc"
            /\ \A j \in 1..Len(out) :
                  (out[j].type = "reply" /\ out[j].msg = IpcMsg(out[i].ipc)) => j < i

\* A registration was sent its endpoint and then notified on it, in its own
\* request, after another watcher had been notified in an earlier request.
C20_Witness ==
    /\ pc = "done"
    /\ \E i, k \in 1..Len(out) :
          /\ out[i].type = "reply" /\ out[i].msg.tag = "ipc"
          /\ out[k].type = "push" /\ out[k].ipc = out[i].msg.ipc
          /\ \E q \in Ipcs : q # out[k].ipc /\ npush[q] = 1

====
